---- MODULE Spec2Model ----
(***************************************************************************)
(* Account and token lifecycle of the cinema backend                       *)
(* (src/src/routers/accounts.py, src/src/tasks.py).                        *)
(*                                                                         *)
(* The relational store is the tables users, user_groups,                  *)
(* activation_tokens, password_reset_tokens and refresh_tokens.  Every     *)
(* endpoint is an operator from the request to its outcome: the tables as  *)
(* the handler leaves them (after its commit, or untouched when it raises  *)
(* before one) together with the response.  An action applies the outcome  *)
(* of one request.  issued_refresh and issued_access are the bearer tokens *)
(* that clients hold (of the access tokens, the newest per user).  Time is *)
(* a discrete clock; one tick stands for one token lifetime.               *)
(***************************************************************************)
EXTENDS Integers, Sequences, FiniteSets, TLC

\* ------------------------------------------------------------------ bounds
MaxTime   == 2   \* last clock value
MaxTokens == 3   \* opaque tokens generate_secure_token may hand out
MaxJwt    == 2   \* refresh JWTs the codec may sign
MaxIssued == 4   \* opaque tokens and refresh JWTs issued in all

\* --------------------------------------------------------------- lifetimes
TOKEN_TTL == 1   \* TokenBase.expires_at offset, in ticks
LOGIN_TIME_DAYS == 1  \* refresh-token lifetime, in ticks
ACCESS_TTL == 1       \* access-token lifetime, in ticks

\* ------------------------------------------------------------------ inputs
Chars       == {"a", "A", "b"}
RawEmails   == {<<c>> : c \in Chars}
Passwords   == {"p1", "P2"}
GroupNames  == {"user"}
BadJwt      == [user_id |-> 0, exp |-> 0, n |-> 0]
BadAccess   == [user_id |-> 0, exp |-> 0]
NoMail      == "none"

\* ----------------------------------------------------------- conversions
\* BaseEmailPasswordSchema.validate_email: value.lower()
LowerChar(c) == IF c = "A" THEN "a" ELSE c

lower(value) == [i \in DOMAIN value |-> LowerChar(value[i])]

\* security.passwords: one-way digest and its verification
hash_password(raw) == <<"hashed", raw>>

verify_password(raw, hashed) == hashed = hash_password(raw)

VARIABLES
  users,                  \* sequence of user rows; the id is the index
  groups,                 \* names of the user_groups rows
  activation_tokens,      \* rows [token, user_id, expires_at]
  password_reset_tokens,  \* rows [token, user_id, expires_at]
  refresh_tokens,         \* rows [token, user_id, expires_at]
  issued_refresh,         \* refresh JWTs ever returned to a client
  issued_access,          \* the newest access JWT returned for each user
  exchanged,              \* refresh JWTs that were exchanged for an access token
  next_token,             \* next value of generate_secure_token
  next_jwt,               \* next refresh JWT serial
  now,                    \* the clock
  carts,                  \* sequence of cart rows [user_id]; the id is the index
  cart_items,             \* sequence of cart_items rows [cart_id, movie_id]
  pc,                     \* where each request that runs step by step stands
  loaded,                 \* what such a request has read or flushed so far
  resp,                   \* the response of such a request, once it has one
  outbox                  \* emails handed to background_tasks and not yet sent

vars == <<users, groups, activation_tokens, password_reset_tokens, refresh_tokens,
          issued_refresh, issued_access, exchanged, next_token, next_jwt, now,
          carts, cart_items, pc, loaded, resp, outbox>>

\* ---------------------------------------------------------------- queries
UserIds == DOMAIN users

\* db.query(User).filter_by(email=...).first(): 0 stands for None
UserByEmail(email) ==
  IF \E i \in UserIds : users[i].email = email
  THEN CHOOSE i \in UserIds : users[i].email = email
  ELSE 0

\* db.query(ActivationToken).filter_by(user_id=...)
ActivationOf(uid) == {t \in activation_tokens : t.user_id = uid}

\* db.query(PasswordResetToken).filter_by(user_id=...)
ResetOf(uid) == {t \in password_reset_tokens : t.user_id = uid}

\* db.query(RefreshToken).filter_by(user_id=...)
RefreshOf(uid) == {t \in refresh_tokens : t.user_id = uid}

\* The rows .first() may return from a query: one of them, or None
NoRow == [token |-> 0, user_id |-> 0, expires_at |-> 0]

First(rows) == IF rows = {} THEN {NoRow} ELSE rows

\* The requests that are followed statement by statement: an activation, a run
\* of the sweeper, two refreshes and two registrations
Reqs == {"act", "sweep", "ref1", "ref2", "reg1", "reg2"}

\* No response yet
NoResp == [status |-> 0, detail |-> ""]

\* ---------------------------------------------------------------- outcome
\* The outcome of a request that changes nothing: the tables and the tokens
\* in clients' hands as they are, and the response.
Keep(status, detail, mail) ==
  [users |-> users, groups |-> groups,
   activation_tokens |-> activation_tokens,
   password_reset_tokens |-> password_reset_tokens,
   refresh_tokens |-> refresh_tokens,
   issued_refresh |-> issued_refresh, issued_access |-> issued_access,
   exchanged |-> exchanged,
   next_token |-> next_token, next_jwt |-> next_jwt,
   status |-> status, detail |-> detail, mail |-> mail]

\* raise HTTPException(status_code, detail) before any commit
Reject(status, detail) == Keep(status, detail, NoMail)

\* The committed tables of an outcome
StoreOf(r) == <<r.users, r.groups, r.activation_tokens, r.password_reset_tokens,
                r.refresh_tokens>>

store == StoreOf(Keep(0, "", NoMail))

Init ==
  /\ users = <<>>
  /\ groups = {}
  /\ activation_tokens = {}
  /\ password_reset_tokens = {}
  /\ refresh_tokens = {}
  /\ issued_refresh = {}
  /\ issued_access = {}
  /\ exchanged = {}
  /\ next_token = 1
  /\ next_jwt = 1
  /\ now = 0
  /\ carts = <<>>
  /\ cart_items = <<>>
  /\ pc = [q \in Reqs |-> "start"]
  /\ loaded = [q \in Reqs |-> NoRow]
  /\ resp = [q \in Reqs |-> NoResp]
  /\ outbox = {}

\* ------------------------------------------------------- request schemas
\* UserRegistrationRequestSchema / UserLoginRequestSchema: the email is lowered
EmailPassword(raw_email, password) ==
  [email |-> lower(raw_email), password |-> password]

\* PasswordResetRequestSchema: a plain EmailStr
PlainEmail(raw_email) == [email |-> raw_email]

\* ------------------------------------------------------------- row makers
\* NewUser with the user created already active
NewUser_active(email, password, group) ==
  [email |-> email, hashed_password |-> hash_password(password),
   is_active |-> TRUE, group |-> group]

\* User(email=..., password=..., group=...): is_active takes the column default
NewUser(email, password, group) ==
  [email |-> email, hashed_password |-> hash_password(password),
   is_active |-> FALSE, group |-> group]

\* ActivationToken(user_id=...) / PasswordResetToken(user_id=...)
NewToken(uid) ==
  [token |-> next_token, user_id |-> uid, expires_at |-> now + TOKEN_TTL]

\* IsExpired with the comparison turned round
IsExpired_reversed(expires_at) == expires_at > now

\* expires_at.replace(tzinfo=utc) < datetime.now(utc)
IsExpired(expires_at) == expires_at < now

\* ------------------------------------------------------------ token codec
\* JWTAuthManager.create_refresh_token({"user_id": id}); n tells apart tokens
\* signed at different instants of one tick
create_refresh_token(uid) ==
  [user_id |-> uid, exp |-> now + LOGIN_TIME_DAYS, n |-> next_jwt]

\* JWTAuthManager.create_access_token({"user_id": id})
create_access_token(uid) == [user_id |-> uid, exp |-> now + ACCESS_TTL]

\* The access token just returned replaces the older one its client held.
Newest(held, token) == {a \in held : a.user_id # token.user_id} \cup {token}

\* JWTAuthManager.decode_refresh_token: "ok", or the error it raises
decode_refresh_token(token) ==
  IF token \notin issued_refresh THEN "Invalid token."
  ELSE IF token.exp < now THEN "Token has expired."
  ELSE "ok"

\* JWTAuthManager.decode_access_token: "ok", or the error it raises
decode_access_token(token) ==
  IF token \notin issued_access THEN "Invalid token."
  ELSE IF token.exp < now THEN "Token has expired."
  ELSE "ok"

\* RefreshToken.create(user_id, days_valid, token)
NewRefreshToken(uid, days_valid, token) ==
  [token |-> token, user_id |-> uid, expires_at |-> now + days_valid]

\* register_user that keeps the flushed user when a later step fails
register_user_partial(user_data, group, fail) ==
  LET existing_user == UserByEmail(user_data.email)
      new_user == NewUser(user_data.email, user_data.password, group)
      new_id == Len(users) + 1
  IN
  IF existing_user # 0
  THEN Reject(409, "A user with this email already exists.")
  ELSE IF fail
  THEN [Reject(500, "An error occurred during user creation.") EXCEPT
          !.groups = groups \cup {group},
          !.users = Append(users, new_user)]
  ELSE [Keep(201, "", "activation") EXCEPT
          !.groups = groups \cup {group},
          !.users = Append(users, new_user),
          !.activation_tokens = activation_tokens \cup {NewToken(new_id)},
          !.next_token = next_token + 1]

\* register_user without the check for an existing user of the email
register_user_unchecked(user_data, group, fail) ==
  LET new_user == NewUser(user_data.email, user_data.password, group)
      new_id == Len(users) + 1
  IN
  IF fail
  THEN Reject(500, "An error occurred during user creation.")
  ELSE [Keep(201, "", "activation") EXCEPT
          !.groups = groups \cup {group},
          !.users = Append(users, new_user),
          !.activation_tokens = activation_tokens \cup {NewToken(new_id)},
          !.next_token = next_token + 1]

\* ------------------------------------------------------------- register
register_user(user_data, group, fail) ==
  LET existing_user == UserByEmail(user_data.email)
      new_user == NewUser(user_data.email, user_data.password, group)
      new_id == Len(users) + 1
  IN
  IF existing_user # 0
  THEN Reject(409, "A user with this email already exists.")
  ELSE IF fail
  THEN Reject(500, "An error occurred during user creation.")
  ELSE [Keep(201, "", "activation") EXCEPT
          !.groups = groups \cup {group},
          !.users = Append(users, new_user),
          !.activation_tokens = activation_tokens \cup {NewToken(new_id)},
          !.next_token = next_token + 1]

\* activate_account that leaves the token row in place on success
activate_account_keeps_token(token) ==
  LET matches == {t \in activation_tokens : t.token = token}
      token_record == CHOOSE t \in matches : TRUE
      user == token_record.user_id
  IN
  IF matches = {}
  THEN Reject(400, "Invalid or expired activation token.")
  ELSE IF IsExpired(token_record.expires_at)
  THEN [Reject(400, "Invalid or expired activation token.") EXCEPT
          !.activation_tokens = activation_tokens \ {token_record}]
  ELSE IF users[user].is_active
  THEN Reject(400, "User account is already active.")
  ELSE [Keep(200, "User account activated successfully.", NoMail) EXCEPT
          !.users = [users EXCEPT ![user].is_active = TRUE]]

\* activate_account that deletes the token of a user who is already active
activate_account_consumes_when_active(token) ==
  LET matches == {t \in activation_tokens : t.token = token}
      token_record == CHOOSE t \in matches : TRUE
      user == token_record.user_id
  IN
  IF matches = {}
  THEN Reject(400, "Invalid or expired activation token.")
  ELSE IF IsExpired(token_record.expires_at)
  THEN [Reject(400, "Invalid or expired activation token.") EXCEPT
          !.activation_tokens = activation_tokens \ {token_record}]
  ELSE IF users[user].is_active
  THEN [Reject(400, "User account is already active.") EXCEPT
          !.activation_tokens = activation_tokens \ {token_record}]
  ELSE [Keep(200, "User account activated successfully.", NoMail) EXCEPT
          !.users = [users EXCEPT ![user].is_active = TRUE],
          !.activation_tokens = activation_tokens \ {token_record}]

\* ------------------------------------------------------------- activate
activate_account(token) ==
  LET matches == {t \in activation_tokens : t.token = token}
      token_record == CHOOSE t \in matches : TRUE
      user == token_record.user_id
  IN
  IF matches = {}
  THEN Reject(400, "Invalid or expired activation token.")
  ELSE IF IsExpired(token_record.expires_at)
  THEN [Reject(400, "Invalid or expired activation token.") EXCEPT
          !.activation_tokens = activation_tokens \ {token_record}]
  ELSE IF users[user].is_active
  THEN Reject(400, "User account is already active.")
  ELSE [Keep(200, "User account activated successfully.", NoMail) EXCEPT
          !.users = [users EXCEPT ![user].is_active = TRUE],
          !.activation_tokens = activation_tokens \ {token_record}]

\* resend_activation_token without the check for an existing token
resend_activation_token_unchecked(user_data) ==
  LET db_user == UserByEmail(user_data.email)
  IN
  IF db_user = 0
  THEN Reject(404, "User not found.")
  ELSE [Keep(200, "Activation token resent successfully.", "activation") EXCEPT
          !.activation_tokens = activation_tokens \cup {NewToken(db_user)},
          !.next_token = next_token + 1]

\* ------------------------------------------------------ activate_resend
resend_activation_token(user_data) ==
  LET db_user == UserByEmail(user_data.email)
  IN
  IF db_user = 0
  THEN Reject(404, "User not found.")
  ELSE IF ActivationOf(db_user) # {}
  THEN Reject(400, "Activation token is still valid.")
  ELSE [Keep(200, "Activation token resent successfully.", "activation") EXCEPT
          !.activation_tokens = activation_tokens \cup {NewToken(db_user)},
          !.next_token = next_token + 1]

\* login_user without the is_active check
login_user_inactive_allowed(login_data, fail) ==
  LET user == UserByEmail(login_data.email)
      jwt_refresh_token == create_refresh_token(user)
  IN
  IF user = 0 \/ ~verify_password(login_data.password, users[user].hashed_password)
  THEN Reject(401, "Invalid email or password.")
  ELSE IF fail
  THEN Reject(500, "An error occurred while processing the request.")
  ELSE [Keep(201, "", NoMail) EXCEPT
          !.refresh_tokens = refresh_tokens
              \cup {NewRefreshToken(user, LOGIN_TIME_DAYS, jwt_refresh_token)},
          !.next_jwt = next_jwt + 1,
          !.issued_refresh = issued_refresh \cup {jwt_refresh_token},
          !.issued_access = Newest(issued_access, create_access_token(user))]

\* login_user that looks at is_active before it verifies the password
login_user_active_first(login_data, fail) ==
  LET user == UserByEmail(login_data.email)
      jwt_refresh_token == create_refresh_token(user)
  IN
  IF user = 0
  THEN Reject(401, "Invalid email or password.")
  ELSE IF ~users[user].is_active
  THEN Reject(403, "User account is not activated.")
  ELSE IF ~verify_password(login_data.password, users[user].hashed_password)
  THEN Reject(401, "Invalid email or password.")
  ELSE IF fail
  THEN Reject(500, "An error occurred while processing the request.")
  ELSE [Keep(201, "", NoMail) EXCEPT
          !.refresh_tokens = refresh_tokens
              \cup {NewRefreshToken(user, LOGIN_TIME_DAYS, jwt_refresh_token)},
          !.next_jwt = next_jwt + 1,
          !.issued_refresh = issued_refresh \cup {jwt_refresh_token},
          !.issued_access = Newest(issued_access, create_access_token(user))]

\* ---------------------------------------------------------------- login
login_user(login_data, fail) ==
  LET user == UserByEmail(login_data.email)
      jwt_refresh_token == create_refresh_token(user)
  IN
  IF user = 0 \/ ~verify_password(login_data.password, users[user].hashed_password)
  THEN Reject(401, "Invalid email or password.")
  ELSE IF ~users[user].is_active
  THEN Reject(403, "User account is not activated.")
  ELSE IF fail
  THEN Reject(500, "An error occurred while processing the request.")
  ELSE [Keep(201, "", NoMail) EXCEPT
          !.refresh_tokens = refresh_tokens
              \cup {NewRefreshToken(user, LOGIN_TIME_DAYS, jwt_refresh_token)},
          !.next_jwt = next_jwt + 1,
          !.issued_refresh = issued_refresh \cup {jwt_refresh_token},
          !.issued_access = Newest(issued_access, create_access_token(user))]

\* --------------------------------------------------------------- logout
\* `first` is the row that .first() returns from the user's refresh tokens.
logout_user(access_token, first) ==
  LET current_user_id == access_token.user_id
  IN
  IF decode_access_token(access_token) # "ok"
  THEN Reject(401, decode_access_token(access_token))
  ELSE IF current_user_id \notin UserIds
  THEN Reject(404, "User not found")
  ELSE IF RefreshOf(current_user_id) = {}
  THEN Reject(401, "Refresh token not found.")
  ELSE [Keep(200, "Logout successful.", NoMail) EXCEPT
          !.refresh_tokens = refresh_tokens \ {first}]

\* request_password_reset_token that leaves the user's older token in place
request_password_reset_token_keeps_old(data) ==
  LET user == UserByEmail(data.email)
      generic == "If you are registered, you will receive an email with instructions."
  IN
  IF user = 0 \/ ~users[user].is_active
  THEN Keep(200, generic, NoMail)
  ELSE [Keep(200, generic, "password_reset") EXCEPT
          !.password_reset_tokens = password_reset_tokens \cup {NewToken(user)},
          !.next_token = next_token + 1]

\* request_password_reset_token without the is_active check
request_password_reset_token_for_inactive(data) ==
  LET user == UserByEmail(data.email)
      generic == "If you are registered, you will receive an email with instructions."
  IN
  IF user = 0
  THEN Keep(200, generic, NoMail)
  ELSE [Keep(200, generic, "password_reset") EXCEPT
          !.password_reset_tokens = (password_reset_tokens \ ResetOf(user))
                                       \cup {NewToken(user)},
          !.next_token = next_token + 1]

\* ------------------------------------------------ password-reset/request
request_password_reset_token(data) ==
  LET user == UserByEmail(data.email)
      generic == "If you are registered, you will receive an email with instructions."
  IN
  IF user = 0 \/ ~users[user].is_active
  THEN Keep(200, generic, NoMail)
  ELSE [Keep(200, generic, "password_reset") EXCEPT
          !.password_reset_tokens = (password_reset_tokens \ ResetOf(user))
                                       \cup {NewToken(user)},
          !.next_token = next_token + 1]

\* reset_password that also deletes the user's refresh tokens
reset_password_revokes(data, token, first, fail) ==
  LET user == UserByEmail(data.email)
      token_record == first
  IN
  IF user = 0 \/ ~users[user].is_active
  THEN Reject(400, "Invalid email or token.")
  ELSE IF ResetOf(user) = {}
  THEN Reject(500, "Internal Server Error")
  ELSE IF token_record.token # token \/ IsExpired(token_record.expires_at)
  THEN [Reject(400, "Invalid email or token.") EXCEPT
          !.password_reset_tokens = password_reset_tokens \ {token_record}]
  ELSE IF fail
  THEN Reject(500, "An error occurred while resetting the password.")
  ELSE [Keep(200, "Password reset successfully.", NoMail) EXCEPT
          !.users = [users EXCEPT ![user].hashed_password = hash_password(data.password)],
          !.password_reset_tokens = password_reset_tokens \ {token_record},
          !.refresh_tokens = refresh_tokens \ RefreshOf(user)]

\* reset_password that does not compare the token value
reset_password_any_token(data, token, first, fail) ==
  LET user == UserByEmail(data.email)
      token_record == first
  IN
  IF user = 0 \/ ~users[user].is_active
  THEN Reject(400, "Invalid email or token.")
  ELSE IF ResetOf(user) = {}
  THEN Reject(500, "Internal Server Error")
  ELSE IF IsExpired(token_record.expires_at)
  THEN [Reject(400, "Invalid email or token.") EXCEPT
          !.password_reset_tokens = password_reset_tokens \ {token_record}]
  ELSE IF fail
  THEN Reject(500, "An error occurred while resetting the password.")
  ELSE [Keep(200, "Password reset successfully.", NoMail) EXCEPT
          !.users = [users EXCEPT ![user].hashed_password = hash_password(data.password)],
          !.password_reset_tokens = password_reset_tokens \ {token_record}]

\* reset_password that leaves the stale record in place when it rejects
reset_password_keeps_stale(data, token, first, fail) ==
  LET user == UserByEmail(data.email)
      token_record == first
  IN
  IF user = 0 \/ ~users[user].is_active
  THEN Reject(400, "Invalid email or token.")
  ELSE IF ResetOf(user) = {}
  THEN Reject(500, "Internal Server Error")
  ELSE IF token_record.token # token \/ IsExpired(token_record.expires_at)
  THEN Reject(400, "Invalid email or token.")
  ELSE IF fail
  THEN Reject(500, "An error occurred while resetting the password.")
  ELSE [Keep(200, "Password reset successfully.", NoMail) EXCEPT
          !.users = [users EXCEPT ![user].hashed_password = hash_password(data.password)],
          !.password_reset_tokens = password_reset_tokens \ {token_record}]

\* reset_password that keeps the token after it was used
reset_password_keeps_token(data, token, first, fail) ==
  LET user == UserByEmail(data.email)
      token_record == first
  IN
  IF user = 0 \/ ~users[user].is_active
  THEN Reject(400, "Invalid email or token.")
  ELSE IF ResetOf(user) = {}
  THEN Reject(500, "Internal Server Error")
  ELSE IF token_record.token # token \/ IsExpired(token_record.expires_at)
  THEN [Reject(400, "Invalid email or token.") EXCEPT
          !.password_reset_tokens = password_reset_tokens \ {token_record}]
  ELSE IF fail
  THEN Reject(500, "An error occurred while resetting the password.")
  ELSE [Keep(200, "Password reset successfully.", NoMail) EXCEPT
          !.users = [users EXCEPT ![user].hashed_password = hash_password(data.password)]]

\* ----------------------------------------------- password-reset/complete
\* `first` is the row that .first() returns from the user's reset tokens.
reset_password(data, token, first, fail) ==
  LET user == UserByEmail(data.email)
      token_record == first
  IN
  IF user = 0 \/ ~users[user].is_active
  THEN Reject(400, "Invalid email or token.")
  ELSE IF ResetOf(user) = {}
  THEN \* token_record is None: token_record.expires_at raises AttributeError
       Reject(500, "Internal Server Error")
  ELSE IF token_record.token # token \/ IsExpired(token_record.expires_at)
  THEN [Reject(400, "Invalid email or token.") EXCEPT
          !.password_reset_tokens = password_reset_tokens \ {token_record}]
  ELSE IF fail
  THEN Reject(500, "An error occurred while resetting the password.")
  ELSE [Keep(200, "Password reset successfully.", NoMail) EXCEPT
          !.users = [users EXCEPT ![user].hashed_password = hash_password(data.password)],
          !.password_reset_tokens = password_reset_tokens \ {token_record}]

\* request_change_password that sends its notification after a rollback too
request_change_password_notifies_on_failure(access_token, password, new_password, fail) ==
  LET user == access_token.user_id
  IN
  IF decode_access_token(access_token) # "ok"
  THEN Reject(401, decode_access_token(access_token))
  ELSE IF user \notin UserIds
  THEN Reject(500, "Internal Server Error")
  ELSE IF ~verify_password(password, users[user].hashed_password)
  THEN Reject(400, "Invalid email or password.")
  ELSE IF verify_password(new_password, users[user].hashed_password)
  THEN Reject(400, "You cannot assign the same password.")
  ELSE IF fail
  THEN Keep(500, "An error occurred while changing the password.", "password_change")
  ELSE [Keep(200, "Password changed successfully", "password_change") EXCEPT
          !.users = [users EXCEPT ![user].hashed_password = hash_password(new_password)],
          !.refresh_tokens = refresh_tokens \ RefreshOf(user)]

\* request_change_password whose delete has no user_id filter
request_change_password_deletes_all(access_token, password, new_password, fail) ==
  LET user == access_token.user_id
  IN
  IF decode_access_token(access_token) # "ok"
  THEN Reject(401, decode_access_token(access_token))
  ELSE IF user \notin UserIds
  THEN Reject(500, "Internal Server Error")
  ELSE IF ~verify_password(password, users[user].hashed_password)
  THEN Reject(400, "Invalid email or password.")
  ELSE IF verify_password(new_password, users[user].hashed_password)
  THEN Reject(400, "You cannot assign the same password.")
  ELSE IF fail
  THEN Reject(500, "An error occurred while changing the password.")
  ELSE [Keep(200, "Password changed successfully", "password_change") EXCEPT
          !.users = [users EXCEPT ![user].hashed_password = hash_password(new_password)],
          !.refresh_tokens = {}]

\* ------------------------------------------------------ change-password
\* Of the request body only password and new_password reach the store; its
\* email is the address of the notification.
request_change_password(access_token, password, new_password, fail) ==
  LET user == access_token.user_id
  IN
  IF decode_access_token(access_token) # "ok"
  THEN Reject(401, decode_access_token(access_token))
  ELSE IF user \notin UserIds
  THEN \* user is None: user.verify_password raises AttributeError
       Reject(500, "Internal Server Error")
  ELSE IF ~verify_password(password, users[user].hashed_password)
  THEN Reject(400, "Invalid email or password.")
  ELSE IF verify_password(new_password, users[user].hashed_password)
  THEN Reject(400, "You cannot assign the same password.")
  ELSE IF fail
  THEN Reject(500, "An error occurred while changing the password.")
  ELSE [Keep(200, "Password changed successfully", "password_change") EXCEPT
          !.users = [users EXCEPT ![user].hashed_password = hash_password(new_password)],
          !.refresh_tokens = refresh_tokens \ RefreshOf(user)]

\* refresh_access_token that leaves the exchanged row in place
refresh_access_token_keeps_record(refresh_token) ==
  LET user_id == refresh_token.user_id
      refresh_token_exist == {r \in refresh_tokens : r.token = refresh_token}
  IN
  IF decode_refresh_token(refresh_token) # "ok"
  THEN Reject(400, decode_refresh_token(refresh_token))
  ELSE IF refresh_token_exist = {}
  THEN Reject(401, "Refresh token not found.")
  ELSE IF user_id \notin UserIds
  THEN Reject(404, "User not found.")
  ELSE [Keep(200, "", NoMail) EXCEPT
          !.issued_access = Newest(issued_access, create_access_token(user_id)),
          !.exchanged = exchanged \cup {refresh_token}]

\* refresh_access_token that trusts the signature and skips the row lookup
refresh_access_token_unchecked(refresh_token) ==
  LET user_id == refresh_token.user_id
      refresh_token_exist == {r \in refresh_tokens : r.token = refresh_token}
  IN
  IF decode_refresh_token(refresh_token) # "ok"
  THEN Reject(400, decode_refresh_token(refresh_token))
  ELSE IF user_id \notin UserIds
  THEN Reject(404, "User not found.")
  ELSE [Keep(200, "", NoMail) EXCEPT
          !.issued_access = Newest(issued_access, create_access_token(user_id)),
          !.exchanged = exchanged \cup {refresh_token},
          !.refresh_tokens = refresh_tokens \ refresh_token_exist]

\* -------------------------------------------------------------- refresh
refresh_access_token(refresh_token) ==
  LET user_id == refresh_token.user_id
      refresh_token_exist == {r \in refresh_tokens : r.token = refresh_token}
  IN
  IF decode_refresh_token(refresh_token) # "ok"
  THEN Reject(400, decode_refresh_token(refresh_token))
  ELSE IF refresh_token_exist = {}
  THEN Reject(401, "Refresh token not found.")
  ELSE IF user_id \notin UserIds
  THEN Reject(404, "User not found.")
  ELSE [Keep(200, "", NoMail) EXCEPT
          !.issued_access = Newest(issued_access, create_access_token(user_id)),
          !.exchanged = exchanged \cup {refresh_token},
          !.refresh_tokens = refresh_tokens \ refresh_token_exist]

\* delete_expired_activation_tokens that sweeps the reset tokens as well
delete_expired_activation_tokens_all_kinds(fail) ==
  LET expired_active_tokens == {t \in activation_tokens : t.expires_at < now}
  IN
  IF fail
  THEN Keep(0, "Error during expired token delete", NoMail)
  ELSE [Keep(0, "", NoMail) EXCEPT
          !.activation_tokens = activation_tokens \ expired_active_tokens,
          !.password_reset_tokens =
              {t \in password_reset_tokens : ~(t.expires_at < now)}]

\* -------------------------------------------------------------- sweeper
delete_expired_activation_tokens(fail) ==
  LET expired_active_tokens == {t \in activation_tokens : t.expires_at < now}
  IN
  IF fail
  THEN Keep(0, "Error during expired token delete", NoMail)
  ELSE [Keep(0, "", NoMail) EXCEPT
          !.activation_tokens = activation_tokens \ expired_active_tokens]

\* ------------------------------------------------------------ the system
\* A request ends with outcome r: the tables and the tokens in
\* clients' hands become those of r.
Apply(r) ==
  \E o \in {r} :
    /\ o.next_token <= MaxTokens + 1
    /\ o.next_jwt <= MaxJwt + 1
    /\ (o.next_token - 1) + (o.next_jwt - 1) <= MaxIssued
    /\ users' = o.users
    /\ groups' = o.groups
    /\ activation_tokens' = o.activation_tokens
    /\ password_reset_tokens' = o.password_reset_tokens
    /\ refresh_tokens' = o.refresh_tokens
    /\ issued_refresh' = o.issued_refresh
    /\ issued_access' = o.issued_access
    /\ exchanged' = o.exchanged
    /\ next_token' = o.next_token
    /\ next_jwt' = o.next_jwt
    /\ UNCHANGED <<now, carts, cart_items, pc, loaded, resp, outbox>>

\* A request ends with outcome r and its handler hands the email of r, if it
\* has one, to background_tasks.
ApplyMail(r, to) ==
  \E o \in {r} :
    /\ o.next_token <= MaxTokens + 1
    /\ (o.next_token - 1) + (o.next_jwt - 1) <= MaxIssued
    /\ users' = o.users
    /\ groups' = o.groups
    /\ activation_tokens' = o.activation_tokens
    /\ password_reset_tokens' = o.password_reset_tokens
    /\ refresh_tokens' = o.refresh_tokens
    /\ issued_refresh' = o.issued_refresh
    /\ issued_access' = o.issued_access
    /\ exchanged' = o.exchanged
    /\ next_token' = o.next_token
    /\ next_jwt' = o.next_jwt
    /\ outbox' = IF o.mail = NoMail THEN outbox
                 ELSE outbox \cup {[kind |-> o.mail, to |-> to]}
    /\ UNCHANGED <<now, carts, cart_items, pc, loaded, resp>>

\* The clock advances.
Tick ==
  /\ now < MaxTime
  /\ now' = now + 1
  /\ UNCHANGED <<users, groups, activation_tokens, password_reset_tokens, refresh_tokens,
                 issued_refresh, issued_access, exchanged, next_token, next_jwt,
                 carts, cart_items, pc, loaded, resp, outbox>>

\* A token value a request may carry: one that was issued, or 0 for any other
TokenInputs == 0 .. (next_token - 1)

AccessInputs == issued_access \cup {BadAccess}

RefreshInputs == issued_refresh \cup {BadJwt}

Register ==
  \E e \in RawEmails, p \in Passwords, g \in GroupNames, fail \in BOOLEAN :
    Apply(register_user(EmailPassword(e, p), g, fail))

Activate == \E t \in TokenInputs : Apply(activate_account(t))

Resend ==
  \E e \in RawEmails, p \in Passwords :
    Apply(resend_activation_token(EmailPassword(e, p)))

Login ==
  \E e \in RawEmails, p \in Passwords, fail \in BOOLEAN :
    Apply(login_user(EmailPassword(e, p), fail))

Logout ==
  \E a \in AccessInputs : \E first \in First(RefreshOf(a.user_id)) :
    Apply(logout_user(a, first))

ResetRequest ==
  \E e \in RawEmails : Apply(request_password_reset_token(PlainEmail(e)))

ResetComplete ==
  \E e \in RawEmails, p \in Passwords, t \in TokenInputs, fail \in BOOLEAN :
    \E first \in First(ResetOf(UserByEmail(lower(e)))) :
      Apply(reset_password(EmailPassword(e, p), t, first, fail))

ChangePassword ==
  \E a \in AccessInputs, p \in Passwords, np \in Passwords, fail \in BOOLEAN :
    Apply(request_change_password(a, p, np, fail))

Refresh == \E r \in RefreshInputs : Apply(refresh_access_token(r))

Sweep == \E fail \in BOOLEAN : Apply(delete_expired_activation_tokens(fail))

Next ==
  \/ Tick
  \/ Register
  \/ Activate
  \/ Resend
  \/ Login
  \/ Logout
  \/ ResetRequest
  \/ ResetComplete
  \/ ChangePassword
  \/ Refresh
  \/ Sweep

Spec == Init /\ [][Next]_vars

\* ================================================================== carts
\* src/src/routers/carts.py over the tables carts and cart_items.  The movie
\* catalogue is fixed; nothing in the routers writes the purchased table.
Movies == {1, 2}

MovieInputs == Movies \cup {3}

purchased == {}

\* db.query(Cart).filter_by(user_id=...): ids of the rows
CartsOf(uid) == {c \in DOMAIN carts : carts[c].user_id = uid}

\* The id .first() may return from the user's carts: one of them, or 0 for None
FirstCart(uid) == IF CartsOf(uid) = {} THEN {0} ELSE CartsOf(uid)

\* db.query(CartItem).filter_by(cart_id=..., movie_id=...): positions of the rows
ItemsOf(items, cart_id, movie_id) ==
  {i \in DOMAIN items : items[i].cart_id = cart_id /\ items[i].movie_id = movie_id}

\* cart.cart_items: positions of the rows
CartItemsOf(cart_id) == {i \in DOMAIN cart_items : cart_items[i].cart_id = cart_id}

\* The table without the rows at the positions gone
Without(items, gone) ==
  LET F[i \in 0 .. Len(items)] ==
        IF i = 0 THEN <<>>
        ELSE IF i \in gone THEN F[i - 1] ELSE Append(F[i - 1], items[i])
  IN F[Len(items)]

\* The outcome of a cart request that changes nothing
CartKeep(status, detail) ==
  [carts |-> carts, cart_items |-> cart_items, status |-> status, detail |-> detail]

\* create_cart without the check for the movie being in the cart already
create_cart_unchecked(access_token, movie_id, cart, fail) ==
  LET user_id == access_token.user_id
      new_carts == IF cart = 0 THEN Append(carts, [user_id |-> user_id]) ELSE carts
      cart_id == IF cart = 0 THEN Len(new_carts) ELSE cart
      created == [CartKeep(400, "") EXCEPT !.carts = new_carts]
  IN
  IF decode_access_token(access_token) # "ok"
  THEN CartKeep(401, decode_access_token(access_token))
  ELSE IF user_id \notin UserIds
  THEN CartKeep(404, "User not found. Please sign up.")
  ELSE IF [user_id |-> user_id, movie_id |-> movie_id] \in purchased
  THEN CartKeep(400, "You have already bought this movie")
  ELSE IF movie_id \notin Movies
  THEN CartKeep(400, "Movie not found")
  ELSE IF fail
  THEN [created EXCEPT !.detail = "Invalid input data"]
  ELSE [created EXCEPT
          !.cart_items = Append(cart_items, [cart_id |-> cart_id, movie_id |-> movie_id]),
          !.status = 200, !.detail = "added in cart successfully"]

\* POST /carts/ : `cart` is the row .first() returns from the user's carts.  A
\* cart that is missing is created and committed before the item is looked at.
create_cart(access_token, movie_id, cart, fail) ==
  LET user_id == access_token.user_id
      new_carts == IF cart = 0 THEN Append(carts, [user_id |-> user_id]) ELSE carts
      cart_id == IF cart = 0 THEN Len(new_carts) ELSE cart
      created == [CartKeep(400, "") EXCEPT !.carts = new_carts]
  IN
  IF decode_access_token(access_token) # "ok"
  THEN CartKeep(401, decode_access_token(access_token))
  ELSE IF user_id \notin UserIds
  THEN CartKeep(404, "User not found. Please sign up.")
  ELSE IF [user_id |-> user_id, movie_id |-> movie_id] \in purchased
  THEN CartKeep(400, "You have already bought this movie")
  ELSE IF movie_id \notin Movies
  THEN CartKeep(400, "Movie not found")
  ELSE IF ItemsOf(cart_items, cart_id, movie_id) # {}
  THEN [created EXCEPT !.detail = "Movie is already in the cart."]
  ELSE IF fail
  THEN [created EXCEPT !.detail = "Invalid input data"]
  ELSE [created EXCEPT
          !.cart_items = Append(cart_items, [cart_id |-> cart_id, movie_id |-> movie_id]),
          !.status = 200, !.detail = "added in cart successfully"]

\* DELETE /carts/{cart_id}/clear/
clear_cart(access_token, cart, fail) ==
  LET user_id == access_token.user_id
  IN
  IF decode_access_token(access_token) # "ok"
  THEN CartKeep(401, decode_access_token(access_token))
  ELSE IF user_id \notin UserIds
  THEN CartKeep(404, "User not found. Please sign up.")
  ELSE IF cart = 0
  THEN CartKeep(400, "Cart not found")
  ELSE IF CartItemsOf(cart) = {}
  THEN CartKeep(400, "Cart is already empty.")
  ELSE IF fail
  THEN CartKeep(500, "Failed to clear cart")
  ELSE [CartKeep(200, "Cart cleared successfully.") EXCEPT
          !.cart_items = Without(cart_items, CartItemsOf(cart))]

\* DELETE /carts/{cart_id}/{movie_id}/ : the cart is the caller's own, whatever
\* cart_id the path names; `item` is the row .first() returns.
remove_movie_from_cart(access_token, movie_id, cart, item, fail) ==
  LET user_id == access_token.user_id
  IN
  IF decode_access_token(access_token) # "ok"
  THEN CartKeep(401, decode_access_token(access_token))
  ELSE IF user_id \notin UserIds
  THEN CartKeep(404, "User not found. Please sign up.")
  ELSE IF movie_id \notin Movies
  THEN CartKeep(400, "Movie not found")
  ELSE IF cart = 0
  THEN CartKeep(400, "Cart not found")
  ELSE IF item = 0
  THEN CartKeep(404, "Movie not found in cart")
  ELSE IF fail
  THEN CartKeep(500, "Please try again later.")
  ELSE [CartKeep(200, "removed from cart successfully") EXCEPT
          !.cart_items = Without(cart_items, {item})]

\* The position .first() may return from the matching items, or 0 for None
FirstItem(cart_id, movie_id) ==
  IF ItemsOf(cart_items, cart_id, movie_id) = {} THEN {0}
  ELSE ItemsOf(cart_items, cart_id, movie_id)

\* A cart request ends with outcome r.
ApplyCart(r) ==
  /\ carts' = r.carts
  /\ cart_items' = r.cart_items
  /\ UNCHANGED <<users, groups, activation_tokens, password_reset_tokens,
                 refresh_tokens, issued_refresh, issued_access, exchanged,
                 next_token, next_jwt, now, pc, loaded, resp, outbox>>

CreateCart ==
  \E a \in AccessInputs, m \in MovieInputs, fail \in BOOLEAN :
    \E cart \in FirstCart(a.user_id) : ApplyCart(create_cart(a, m, cart, fail))

ClearCart ==
  \E a \in AccessInputs, fail \in BOOLEAN :
    \E cart \in FirstCart(a.user_id) : ApplyCart(clear_cart(a, cart, fail))

RemoveMovie ==
  \E a \in AccessInputs, m \in MovieInputs, fail \in BOOLEAN :
    \E cart \in FirstCart(a.user_id) : \E item \in FirstItem(cart, m) :
      ApplyCart(remove_movie_from_cart(a, m, cart, item, fail))

\* Two users have registered, activated their accounts and logged in.
InitCarts ==
  /\ users = <<[NewUser(<<"a">>, "p1", "user") EXCEPT !.is_active = TRUE],
               [NewUser(<<"b">>, "p1", "user") EXCEPT !.is_active = TRUE]>>
  /\ groups = {"user"}
  /\ activation_tokens = {}
  /\ password_reset_tokens = {}
  /\ issued_refresh = {[user_id |-> u, exp |-> LOGIN_TIME_DAYS, n |-> u] : u \in {1, 2}}
  /\ refresh_tokens = {[token |-> t, user_id |-> t.user_id, expires_at |-> LOGIN_TIME_DAYS] :
                          t \in issued_refresh}
  /\ issued_access = {[user_id |-> u, exp |-> ACCESS_TTL] : u \in {1, 2}}
  /\ exchanged = {}
  /\ next_token = 3
  /\ next_jwt = 3
  /\ now = 0
  /\ carts = <<>>
  /\ cart_items = <<>>
  /\ pc = [q \in Reqs |-> "start"]
  /\ loaded = [q \in Reqs |-> NoRow]
  /\ resp = [q \in Reqs |-> NoResp]
  /\ outbox = {}

NextCarts ==
  \/ Tick
  \/ CreateCart
  \/ ClearCart
  \/ RemoveMovie

SpecCarts == InitCarts /\ [][NextCarts]_vars

\* =========================================================== step by step
\* Requests that overlap: each of Reqs runs once, one statement group at a
\* time, against the committed tables.

\* delete_row that fails when the row is gone
delete_row_strict(table, row) == [ok |-> row \in table, table |-> table \ {row}]

\* db.delete(row); db.commit(): a DELETE that matches no row, because another
\* transaction has deleted it, is reported by the session as a warning only
delete_row(table, row) == [ok |-> TRUE, table |-> table \ {row}]

\* The store without the unique index on users.email
UniqueViolation_off(email, pending) == FALSE

\* users.email is unique: an INSERT fails when a committed row, or a row
\* another transaction has flushed, has the email
UniqueViolation(email, pending) == UserByEmail(email) # 0 \/ email \in pending

Answer(q, status, detail) ==
  /\ resp' = [resp EXCEPT ![q] = [status |-> status, detail |-> detail]]
  /\ pc' = [pc EXCEPT ![q] = "done"]

Goto(q, label) ==
  /\ pc' = [pc EXCEPT ![q] = label]
  /\ UNCHANGED resp

AccountVars == <<users, groups, activation_tokens, password_reset_tokens, refresh_tokens,
                 issued_refresh, issued_access, exchanged, next_token, next_jwt>>

\* ------------------------------------------------ activate_account, by steps
\* token_record = db.query(ActivationToken)...filter(token == ...).first()
ActLookup ==
  \E t \in TokenInputs : \E row \in First({x \in activation_tokens : x.token = t}) :
    /\ pc["act"] = "start"
    /\ loaded' = [loaded EXCEPT !["act"] = row]
    /\ Goto("act", "looked")
    /\ UNCHANGED <<AccountVars, now, carts, cart_items, outbox>>

\* if not token_record or expires_at < now ... / if user.is_active
ActCheck ==
  /\ pc["act"] = "looked"
  /\ IF loaded["act"] = NoRow
     THEN Answer("act", 400, "Invalid or expired activation token.")
     ELSE IF IsExpired(loaded["act"].expires_at)
     THEN Goto("act", "expired")
     ELSE IF users[loaded["act"].user_id].is_active
     THEN Answer("act", 400, "User account is already active.")
     ELSE Goto("act", "valid")
  /\ UNCHANGED <<AccountVars, now, carts, cart_items, loaded, outbox>>

\* db.delete(token_record); db.commit(), after user.is_active = True on the
\* valid path; a failing commit is not caught
ActWrite ==
  LET d == delete_row(activation_tokens, loaded["act"])
  IN
  /\ pc["act"] \in {"expired", "valid"}
  /\ IF ~d.ok
     THEN /\ Answer("act", 500, "Internal Server Error")
          /\ UNCHANGED <<users, activation_tokens>>
     ELSE IF pc["act"] = "expired"
     THEN /\ Answer("act", 400, "Invalid or expired activation token.")
          /\ activation_tokens' = d.table
          /\ UNCHANGED users
     ELSE /\ Answer("act", 200, "User account activated successfully.")
          /\ activation_tokens' = d.table
          /\ users' = [users EXCEPT ![loaded["act"].user_id].is_active = TRUE]
  /\ UNCHANGED <<groups, password_reset_tokens, refresh_tokens, issued_refresh,
                 issued_access, exchanged, next_token, next_jwt,
                 now, carts, cart_items, loaded, outbox>>

\* ------------------------------- delete_expired_activation_tokens, by steps
\* expired_active_tokens = db.query(ActivationToken).filter(expires_at < utcnow()).all()
SweepSelect ==
  /\ pc["sweep"] = "start"
  /\ loaded' = [loaded EXCEPT !["sweep"] = {t \in activation_tokens : t.expires_at < now}]
  /\ Goto("sweep", "selected")
  /\ UNCHANGED <<AccountVars, now, carts, cart_items, outbox>>

\* for token in expired_active_tokens: db.delete(token); db.commit()
SweepCommit ==
  \E fail \in BOOLEAN :
    /\ pc["sweep"] = "selected"
    /\ IF fail
       THEN /\ Answer("sweep", 0, "Error during expired token delete")
            /\ UNCHANGED activation_tokens
       ELSE /\ Answer("sweep", 0, "swept")
            /\ activation_tokens' = activation_tokens \ loaded["sweep"]
    /\ UNCHANGED <<users, groups, password_reset_tokens, refresh_tokens, issued_refresh,
                   issued_access, exchanged, next_token, next_jwt,
                   now, carts, cart_items, loaded, outbox>>

\* ---------------------------------------------- refresh_access_token, by steps
\* Both refreshes present the refresh token of the first login.
RacedToken == [user_id |-> 1, exp |-> LOGIN_TIME_DAYS, n |-> 1]

\* decode_refresh_token, then db.query(RefreshToken).filter_by(token=...).first()
RefLookup ==
  \E q \in {"ref1", "ref2"} :
    \E row \in First({r \in refresh_tokens : r.token = RacedToken}) :
      /\ pc[q] = "start"
      /\ IF decode_refresh_token(RacedToken) # "ok"
         THEN Answer(q, 400, decode_refresh_token(RacedToken)) /\ UNCHANGED loaded
         ELSE IF row = NoRow
         THEN Answer(q, 401, "Refresh token not found.") /\ UNCHANGED loaded
         ELSE Goto(q, "found") /\ loaded' = [loaded EXCEPT ![q] = row]
      /\ UNCHANGED <<AccountVars, now, carts, cart_items, outbox>>

\* user lookup, db.delete(refresh_token_exist); db.commit(), create_access_token
RefFinish ==
  \E q \in {"ref1", "ref2"} :
    LET d == delete_row(refresh_tokens, loaded[q])
    IN
    /\ pc[q] = "found"
    /\ IF RacedToken.user_id \notin UserIds
       THEN /\ Answer(q, 404, "User not found.")
            /\ UNCHANGED <<refresh_tokens, issued_access, exchanged>>
       ELSE IF ~d.ok
       THEN /\ Answer(q, 500, "Internal Server Error")
            /\ UNCHANGED <<refresh_tokens, issued_access, exchanged>>
       ELSE /\ Answer(q, 200, "")
            /\ refresh_tokens' = d.table
            /\ issued_access' = Newest(issued_access, create_access_token(RacedToken.user_id))
            /\ exchanged' = exchanged \cup {RacedToken}
    /\ UNCHANGED <<users, groups, activation_tokens, password_reset_tokens,
                   issued_refresh, next_token, next_jwt,
                   now, carts, cart_items, loaded, outbox>>

\* ---------------------------------------------------- register_user, by steps
\* Both registrations name one address, spelt in two ways.
RegData(q) ==
  IF q = "reg1" THEN EmailPassword(<<"a">>, "p1") ELSE EmailPassword(<<"A">>, "P2")

\* Emails of the rows that the other registrations have flushed
PendingEmails(q) ==
  {loaded[o].email : o \in {o \in {"reg1", "reg2"} \ {q} : pc[o] = "flushed"}}

\* existing_user = db.query(User).filter_by(email=...).first()
RegCheck ==
  \E q \in {"reg1", "reg2"} :
    /\ pc[q] = "start"
    /\ IF UserByEmail(RegData(q).email) # 0
       THEN Answer(q, 409, "A user with this email already exists.")
       ELSE Goto(q, "checked")
    /\ UNCHANGED <<AccountVars, now, carts, cart_items, loaded, outbox>>

\* db.add(new_user); db.flush(): an IntegrityError is a SQLAlchemyError
RegFlush ==
  \E q \in {"reg1", "reg2"} :
    /\ pc[q] = "checked"
    /\ IF UniqueViolation(RegData(q).email, PendingEmails(q))
       THEN Answer(q, 500, "An error occurred during user creation.") /\ UNCHANGED loaded
       ELSE /\ Goto(q, "flushed")
            /\ loaded' = [loaded EXCEPT
                            ![q] = NewUser(RegData(q).email, RegData(q).password, "user")]
    /\ UNCHANGED <<AccountVars, now, carts, cart_items, outbox>>

\* the activation token, then db.commit(), or db.rollback() on an error
RegCommit ==
  \E q \in {"reg1", "reg2"}, fail \in BOOLEAN :
    /\ pc[q] = "flushed"
    /\ IF fail
       THEN /\ Answer(q, 500, "An error occurred during user creation.")
            /\ UNCHANGED <<users, groups, activation_tokens, next_token>>
       ELSE /\ next_token <= MaxTokens
            /\ Goto(q, "committed")
            /\ users' = Append(users, loaded[q])
            /\ groups' = groups \cup {loaded[q].group}
            /\ activation_tokens' = activation_tokens \cup {NewToken(Len(users) + 1)}
            /\ next_token' = next_token + 1
    /\ UNCHANGED <<password_reset_tokens, refresh_tokens, issued_refresh, issued_access,
                   exchanged, next_jwt, now, carts, cart_items, loaded, outbox>>

\* background_tasks.add_task(email_sender.send_activation_email, ...); return
RegEnqueue ==
  \E q \in {"reg1", "reg2"} :
    /\ pc[q] = "committed"
    /\ Answer(q, 201, "")
    /\ outbox' = outbox \cup {[kind |-> "activation", to |-> loaded[q].email]}
    /\ UNCHANGED <<AccountVars, now, carts, cart_items, loaded>>

\* ------------------------------------------------- the handlers with email
RegisterMail ==
  \E e \in RawEmails, p \in Passwords, g \in GroupNames, fail \in BOOLEAN :
    ApplyMail(register_user(EmailPassword(e, p), g, fail), lower(e))

ResendMail ==
  \E e \in RawEmails, p \in Passwords :
    ApplyMail(resend_activation_token(EmailPassword(e, p)), lower(e))

ResetRequestMail ==
  \E e \in RawEmails : ApplyMail(request_password_reset_token(PlainEmail(e)), e)

\* The notification goes to the email of the request body.
ChangePasswordMail ==
  \E a \in AccessInputs, e \in RawEmails, p \in Passwords, np \in Passwords,
     fail \in BOOLEAN :
    ApplyMail(request_change_password(a, p, np, fail), lower(e))

\* The background task runs EmailSender.send_email; an SMTP failure is logged
\* and raised inside the task.
SendEmail ==
  \E m \in outbox, fail \in BOOLEAN :
    /\ outbox' = outbox \ {m}
    /\ UNCHANGED <<AccountVars, now, carts, cart_items, pc, loaded, resp>>

\* One user has registered, activated the account and logged in.
InitRace ==
  /\ users = <<[NewUser(<<"b">>, "p1", "user") EXCEPT !.is_active = TRUE]>>
  /\ groups = {"user"}
  /\ activation_tokens = {}
  /\ password_reset_tokens = {}
  /\ issued_refresh = {RacedToken}
  /\ refresh_tokens = {[token |-> RacedToken, user_id |-> 1, expires_at |-> LOGIN_TIME_DAYS]}
  /\ issued_access = {[user_id |-> 1, exp |-> ACCESS_TTL]}
  /\ exchanged = {}
  /\ next_token = 2
  /\ next_jwt = 2
  /\ now = 0
  /\ carts = <<>>
  /\ cart_items = <<>>
  /\ pc = [q \in Reqs |-> "start"]
  /\ loaded = [q \in Reqs |-> NoRow]
  /\ resp = [q \in Reqs |-> NoResp]
  /\ outbox = {}

NextRace ==
  \/ Tick
  \/ ActLookup
  \/ ActCheck
  \/ ActWrite
  \/ SweepSelect
  \/ SweepCommit
  \/ RefLookup
  \/ RefFinish
  \/ RegCheck
  \/ RegFlush
  \/ RegCommit
  \/ RegEnqueue

SpecRace == InitRace /\ [][NextRace]_vars

\* The handlers that send email, one request after another, and the
\* background task that sends what they enqueued.
NextMail ==
  \/ Tick
  \/ RegisterMail
  \/ ResendMail
  \/ ResetRequestMail
  \/ ChangePasswordMail
  \/ SendEmail

SpecMail == InitRace /\ [][NextMail]_vars

\* ================================================================ claims

\* C1: a register_user call that succeeds for an email no user has adds exactly
\* one user row, with that email and inactive, and leaves exactly one activation
\* token for the new user.
C1_RegisterCreatesInactiveUserWithOneToken ==
  \A e \in RawEmails, p \in Passwords, g \in GroupNames, fail \in BOOLEAN :
    LET user_data == EmailPassword(e, p)
        r == register_user(user_data, g, fail)
        new_id == Len(r.users)
    IN (UserByEmail(user_data.email) = 0 /\ r.status = 201) =>
          /\ Len(r.users) = Len(users) + 1
          /\ SubSeq(r.users, 1, Len(users)) = users
          /\ {i \in DOMAIN r.users : r.users[i].email = user_data.email} = {new_id}
          /\ ~r.users[new_id].is_active
          /\ Cardinality({t \in r.activation_tokens : t.user_id = new_id}) = 1

\* A second user has just been registered beside the first one.
C1_Witness ==
  /\ Len(users) = 2
  /\ users[1].email # users[2].email
  /\ ~users[2].is_active
  /\ Cardinality(ActivationOf(2)) = 1

\* C2: every refresh-token row belongs to an active user, and login_user with
\* the correct password of an inactive user answers 403, persists no
\* refresh-token row and returns no tokens.
C2_RefreshTokensOnlyForActiveUsers ==
  /\ \A row \in refresh_tokens :
       row.user_id \in UserIds /\ users[row.user_id].is_active
  /\ \A e \in RawEmails, p \in Passwords, fail \in BOOLEAN :
       LET login_data == EmailPassword(e, p)
           u == UserByEmail(login_data.email)
           r == login_user(login_data, fail)
       IN (u # 0 /\ users[u].hashed_password = hash_password(p) /\ ~users[u].is_active) =>
             /\ r.status = 403
             /\ r.refresh_tokens = refresh_tokens
             /\ r.issued_refresh = issued_refresh
             /\ r.issued_access = issued_access

\* One user is logged in while another one is still inactive.
C2_Witness ==
  /\ refresh_tokens # {}
  /\ \E u \in UserIds : ~users[u].is_active

\* C3: activate_account with the token of an unexpired row of an inactive user
\* answers 200, sets the user active and deletes the row; a token value that was
\* issued and has no row never gets one again, and activate_account with it
\* answers 400 and changes nothing.
C3_ActivationConsumesToken ==
  /\ [](\A t \in activation_tokens :
          (~(t.expires_at < now) /\ ~users[t.user_id].is_active) =>
             LET r == activate_account(t.token)
             IN /\ r.status = 200
                /\ r.users = [users EXCEPT ![t.user_id].is_active = TRUE]
                /\ r.activation_tokens = activation_tokens \ {t}
                /\ \A x \in r.activation_tokens : x.token # t.token)
  /\ [](\A v \in 1 .. (next_token - 1) :
          (\A t \in activation_tokens : t.token # v) =>
             LET r == activate_account(v)
             IN r.status = 400 /\ r = Reject(400, r.detail))
  /\ [][\A v \in 1 .. (next_token - 1) :
          (\A t \in activation_tokens : t.token # v) =>
             (\A t \in activation_tokens' : t.token # v)]_vars

\* A user has been activated and the token that did it is gone.
C3_Witness ==
  \E u \in UserIds : users[u].is_active /\ ActivationOf(u) = {}

\* C4: activate_account with the token of a row whose expiry is in the past
\* answers 400, deletes the row and leaves every user as it was.
C4_ExpiredActivationTokenRejected ==
  \A t \in activation_tokens :
    t.expires_at < now =>
      LET r == activate_account(t.token)
      IN /\ r.status = 400
         /\ r.activation_tokens = activation_tokens \ {t}
         /\ r.users = users

\* An inactive user's activation token has expired and is still stored.
C4_Witness ==
  \E t \in activation_tokens : t.expires_at < now /\ ~users[t.user_id].is_active

\* C5 (as stated): a successful refresh_access_token deletes the row of the
\* token it was given, and every later call with that token answers
\* 401 "Refresh token not found.".
C5_ReplayAnswers401 ==
  /\ \A tok \in RefreshInputs :
       LET r == refresh_access_token(tok)
       IN r.status = 200 => \A row \in r.refresh_tokens : row.token # tok
  /\ \A tok \in exchanged :
       LET r == refresh_access_token(tok)
       IN r.status = 401 /\ r.detail = "Refresh token not found."

\* C5 (amended): a successful refresh_access_token deletes the row of the token
\* it was given; every later call with that token fails and changes nothing:
\* with 401 "Refresh token not found." while the token has not expired, with
\* 400 once its expiry has passed.
C5_RefreshTokenSingleUse ==
  /\ \A tok \in RefreshInputs :
       LET r == refresh_access_token(tok)
       IN r.status = 200 =>
            /\ tok \in r.exchanged
            /\ \A row \in r.refresh_tokens : row.token # tok
  /\ \A tok \in exchanged :
       LET r == refresh_access_token(tok)
       IN /\ \A row \in refresh_tokens : row.token # tok
          /\ r = Reject(r.status, r.detail)
          /\ IF tok.exp < now
             THEN r.status = 400
             ELSE r.status = 401 /\ r.detail = "Refresh token not found."

\* A refresh token was exchanged and has not expired: its replay answers 401.
C5_Witness ==
  \E tok \in exchanged : ~(tok.exp < now) /\ refresh_access_token(tok).status = 401

\* C6: refresh_access_token answers 200 only when a row with exactly the
\* presented value is stored; a signed, unexpired token without a row is
\* answered 401 "Refresh token not found." and nothing changes.
C6_RefreshNeedsStoredRecord ==
  \A tok \in RefreshInputs :
    LET r == refresh_access_token(tok)
        stored == \E row \in refresh_tokens : row.token = tok
    IN /\ r.status = 200 => stored
       /\ (tok \in issued_refresh /\ ~(tok.exp < now) /\ ~stored) =>
             r = Reject(401, "Refresh token not found.")

\* A signed, unexpired refresh token whose row has been deleted.
C6_Witness ==
  \E tok \in issued_refresh :
    ~(tok.exp < now) /\ \A row \in refresh_tokens : row.token # tok

\* C7 (as stated): after a successful logout_user of user u no refresh-token
\* row of u is left.
C7_LogoutRemovesAllRefreshTokens ==
  \A a \in AccessInputs : \A first \in First(RefreshOf(a.user_id)) :
    LET r == logout_user(a, first)
    IN r.status = 200 => {row \in r.refresh_tokens : row.user_id = a.user_id} = {}

\* C8: a successful request_change_password of user u deletes exactly the
\* refresh-token rows of u; right after it refresh_access_token refuses every
\* token issued to u and answers the tokens of other users as before; a token
\* without a row is never honoured and never gets a row again.
C8_PasswordChangeRevokesOwnRefreshTokens ==
  /\ [][\A a \in AccessInputs, p \in Passwords, np \in Passwords :
          LET r == request_change_password(a, p, np, FALSE)
          IN (r.status = 200 /\ Apply(r)) =>
               /\ refresh_tokens' = {row \in refresh_tokens : row.user_id # a.user_id}
               /\ \A tok \in issued_refresh :
                    IF tok.user_id = a.user_id
                    THEN (refresh_access_token(tok).status)' # 200
                    ELSE (refresh_access_token(tok).status)'
                            = refresh_access_token(tok).status]_vars
  /\ [](\A tok \in issued_refresh :
          (\A row \in refresh_tokens : row.token # tok) =>
             refresh_access_token(tok).status # 200)
  /\ [][\A tok \in issued_refresh :
          (\A row \in refresh_tokens : row.token # tok) =>
             (\A row \in refresh_tokens' : row.token # tok)]_vars

\* Two users hold honoured refresh tokens and one of them changes the password.
C8_Witness ==
  \E a \in issued_access, p \in Passwords, np \in Passwords :
    /\ request_change_password(a, p, np, FALSE).status = 200
    /\ \E tok \in issued_refresh :
         tok.user_id = a.user_id /\ refresh_access_token(tok).status = 200
    /\ \E tok \in issued_refresh :
         tok.user_id # a.user_id /\ refresh_access_token(tok).status = 200

\* C9: login_user gives one and the same answer, 401 "Invalid email or
\* password.", for an email of no user and for a wrong password of a user,
\* active or not, and persists nothing.
C9_LoginFailureIndistinguishable ==
  \A e \in RawEmails, p \in Passwords, fail \in BOOLEAN :
    LET login_data == EmailPassword(e, p)
        u == UserByEmail(login_data.email)
        r == login_user(login_data, fail)
    IN (u = 0 \/ users[u].hashed_password # hash_password(p)) =>
          r = Reject(401, "Invalid email or password.")

\* One email has no user while an inactive user exists.
C9_Witness ==
  /\ \E e \in RawEmails : UserByEmail(lower(e)) = 0
  /\ \E u \in UserIds : ~users[u].is_active

C11_ResendIssuesUnlessValidToken ==
  \A e \in RawEmails, p \in Passwords :
    LET user_data == EmailPassword(e, p)
        u == UserByEmail(user_data.email)
        r == resend_activation_token(user_data)
    IN IF u = 0 THEN r = Reject(404, "User not found.")
       ELSE IF \E t \in ActivationOf(u) : ~(t.expires_at < now)
       THEN r.status = 400 /\ r = Reject(400, r.detail)
       ELSE /\ r.status = 200
            /\ \E t \in r.activation_tokens \ activation_tokens : t.user_id = u

\* C12 (as stated): reset_password for an active user who has no reset-token
\* row answers 400 "Invalid email or token." and changes nothing.
C12_ResetWithoutTokenRejected400 ==
  \A e \in RawEmails, p \in Passwords, t \in TokenInputs, fail \in BOOLEAN :
    LET data == EmailPassword(e, p)
        u == UserByEmail(data.email)
    IN (u # 0 /\ users[u].is_active /\ ResetOf(u) = {}) =>
          reset_password(data, t, NoRow, fail) = Reject(400, "Invalid email or token.")

\* C13: request_password_reset_token for an active user who already has a
\* reset token leaves no row with the older value; reset_password never answers
\* 200 to a value that was issued and has no row, and such a value never gets
\* a row again.
C13_SecondResetRequestInvalidatesFirst ==
  /\ [](\A e \in RawEmails :
          LET u == UserByEmail(e)
              r == request_password_reset_token(PlainEmail(e))
          IN (u # 0 /\ users[u].is_active) =>
               \A old \in ResetOf(u) :
                 \A x \in r.password_reset_tokens : x.token # old.token)
  /\ [](\A v \in 1 .. (next_token - 1) :
          (\A x \in password_reset_tokens : x.token # v) =>
             \A e \in RawEmails, p \in Passwords, fail \in BOOLEAN :
               \A first \in First(ResetOf(UserByEmail(lower(e)))) :
                 reset_password(EmailPassword(e, p), v, first, fail).status # 200)
  /\ [][\A v \in 1 .. (next_token - 1) :
          (\A x \in password_reset_tokens : x.token # v) =>
             (\A x \in password_reset_tokens' : x.token # v)]_vars

\* The only user asked for a reset token twice (values 2 and 3); the first
\* value is refused.
C13_Witness ==
  /\ Len(users) = 1 /\ now = 0 /\ activation_tokens = {}
  /\ \E t \in password_reset_tokens : t.token = 3
  /\ \A first \in ResetOf(1) :
       reset_password(EmailPassword(users[1].email, "p1"), 2, first, FALSE).status = 400

C15_ResetRequestIndistinguishable ==
  \A e \in RawEmails :
    LET u == UserByEmail(e)
        r == request_password_reset_token(PlainEmail(e))
        generic == "If you are registered, you will receive an email with instructions."
    IN /\ r.status = 200
       /\ r.detail = generic
       /\ (u = 0 \/ ~users[u].is_active) => r = Keep(200, generic, NoMail)

\* An active user, an inactive user and an email of no user at once.
C15_Witness ==
  /\ \E u \in UserIds : users[u].is_active
  /\ \E u \in UserIds : ~users[u].is_active
  /\ \E e \in RawEmails : UserByEmail(e) = 0
  /\ \E e \in RawEmails :
       request_password_reset_token(PlainEmail(e)).mail = "password_reset"

\* C16: reset_password of an active user with a value other than the stored
\* one, or with the stored token expired, answers 400, leaves the users as they
\* are and deletes the stored row; a value that was issued and has no row is
\* never accepted and never gets a row again.
C16_StaleResetTokenRejectedAndDeleted ==
  /\ [](\A e \in RawEmails, p \in Passwords, t \in TokenInputs, fail \in BOOLEAN :
          LET data == EmailPassword(e, p)
              u == UserByEmail(data.email)
          IN (u # 0 /\ users[u].is_active) =>
               \A first \in ResetOf(u) :
                 (first.token # t \/ first.expires_at < now) =>
                    LET r == reset_password(data, t, first, fail)
                    IN /\ r.status = 400
                       /\ r.users = users
                       /\ r.password_reset_tokens = password_reset_tokens \ {first}
                       /\ \A x \in r.password_reset_tokens : x.token # first.token)
  /\ [](\A v \in 1 .. (next_token - 1) :
          (\A x \in password_reset_tokens : x.token # v) =>
             \A e \in RawEmails, p \in Passwords, fail \in BOOLEAN :
               \A first \in First(ResetOf(UserByEmail(lower(e)))) :
                 LET r == reset_password(EmailPassword(e, p), v, first, fail)
                 IN r.status # 200 /\ r.users = users)
  /\ [][\A v \in 1 .. (next_token - 1) :
          (\A x \in password_reset_tokens : x.token # v) =>
             (\A x \in password_reset_tokens' : x.token # v)]_vars

\* An active user's reset token has expired and is still stored.
C16_Witness ==
  \E t \in password_reset_tokens :
    t.expires_at < now /\ users[t.user_id].is_active

\* C17: a reset_password call that succeeds stores the digest of the new
\* password and deletes the reset token; right after it login_user succeeds
\* with the new password and with no other, and reset_password with the same
\* token value is refused.
C17_ResetSetsPasswordAndConsumesToken ==
  /\ [](\A e \in RawEmails, p \in Passwords, t \in TokenInputs, fail \in BOOLEAN :
          LET data == EmailPassword(e, p)
              u == UserByEmail(data.email)
          IN \A first \in First(ResetOf(u)) :
               LET r == reset_password(data, t, first, fail)
               IN r.status = 200 =>
                    /\ r.users = [users EXCEPT ![u].hashed_password = hash_password(p)]
                    /\ r.password_reset_tokens = password_reset_tokens \ {first}
                    /\ \A x \in r.password_reset_tokens : x.token # t)
  /\ [][password_reset_tokens' # password_reset_tokens =>
        \A e \in RawEmails, p \in Passwords, t \in TokenInputs :
          LET data == EmailPassword(e, p)
              u == UserByEmail(data.email)
          IN \A first \in First(ResetOf(u)) :
               LET r == reset_password(data, t, first, FALSE)
               IN (r.status = 200 /\ Apply(r)) =>
                    /\ \A p2 \in Passwords :
                         (login_user(EmailPassword(e, p2), FALSE).status = 201)'
                            <=> (p2 = p)
                    /\ (\A p2 \in Passwords, f2 \in BOOLEAN :
                          \A first2 \in First(ResetOf(u)) :
                            reset_password(EmailPassword(e, p2), t, first2, f2).status
                               # 200)']_vars

\* A reset that will succeed and replace the password by a different one.
C17_Witness ==
  \E e \in RawEmails, p \in Passwords, t \in TokenInputs :
    LET data == EmailPassword(e, p)
        u == UserByEmail(data.email)
    IN \E first \in First(ResetOf(u)) :
         /\ reset_password(data, t, first, FALSE).status = 200
         /\ users[u].hashed_password # hash_password(p)

\* C18: activate_account with an unexpired token of a user who is already
\* active answers 400 "User account is already active." and changes nothing.
C18_ActivateAlreadyActiveKeepsToken ==
  \A t \in activation_tokens :
    (~(t.expires_at < now) /\ users[t.user_id].is_active) =>
       activate_account(t.token) = Reject(400, "User account is already active.")

\* An active user holds an unexpired activation token.
C18_Witness ==
  \E t \in activation_tokens : ~(t.expires_at < now) /\ users[t.user_id].is_active

\* C19: a user row is created inactive, and no step makes an active user
\* inactive or removes it.
C19_ActiveFlagMonotonic ==
  /\ [][\A u \in DOMAIN users' : u \notin DOMAIN users => ~users'[u].is_active]_vars
  /\ [][\A u \in DOMAIN users :
          users[u].is_active => (u \in DOMAIN users' /\ users'[u].is_active)]_vars

\* The first user is active, went on to ask for a password reset, and a second
\* user was registered after the activation.
C19_Witness ==
  /\ Len(users) = 2
  /\ users[1].is_active /\ ~users[2].is_active
  /\ ResetOf(1) # {}

\* C20: register_user with an email that a user already has answers 409 and
\* creates no user, no group and no activation token and enqueues no email.
C20_DuplicateRegistrationRejected ==
  \A e \in RawEmails, p \in Passwords, g \in GroupNames, fail \in BOOLEAN :
    LET user_data == EmailPassword(e, p)
        r == register_user(user_data, g, fail)
    IN UserByEmail(user_data.email) # 0 =>
         /\ r.status = 409
         /\ r = Reject(409, r.detail)

\* A user exists whose email another spelling of the same address lowers to.
C20_Witness ==
  \E e \in RawEmails : e # lower(e) /\ UserByEmail(lower(e)) # 0

\* C21: register_user for a free email either commits the user together with
\* its activation token (201) or, when a persistence step fails, answers 500
\* with the store as it was; every activation token belongs to a user.
C21_RegisterFailureRollsBack ==
  /\ \A e \in RawEmails, p \in Passwords, g \in GroupNames, fail \in BOOLEAN :
       LET user_data == EmailPassword(e, p)
           r == register_user(user_data, g, fail)
       IN /\ (UserByEmail(user_data.email) = 0 /\ fail) =>
               r = Reject(500, "An error occurred during user creation.")
          /\ r.status # 201 => StoreOf(r) = store
          /\ r.status = 201 =>
               /\ Len(r.users) = Len(users) + 1
               /\ \E t \in r.activation_tokens \ activation_tokens :
                    t.user_id = Len(r.users)
  /\ \A t \in activation_tokens : t.user_id \in UserIds

\* A registration for a free email fails while a user and the group exist.
C21_Witness ==
  /\ Len(users) = 1 /\ groups # {}
  /\ \E e \in RawEmails :
       /\ UserByEmail(lower(e)) = 0
       /\ register_user(EmailPassword(e, "p1"), "user", TRUE).status = 500

\* C22: a run of delete_expired_activation_tokens that does not fail removes
\* exactly the activation tokens whose expiry is in the past; no run touches
\* another activation token, a reset token, a refresh token or a user.
C22_SweeperDeletesOnlyExpiredActivationTokens ==
  /\ delete_expired_activation_tokens(FALSE).activation_tokens
        = {t \in activation_tokens : ~(t.expires_at < now)}
  /\ \A fail \in BOOLEAN :
       LET r == delete_expired_activation_tokens(fail)
       IN /\ r.activation_tokens \subseteq activation_tokens
          /\ \A t \in activation_tokens \ r.activation_tokens : t.expires_at < now
          /\ r = [Keep(r.status, r.detail, NoMail) EXCEPT
                    !.activation_tokens = r.activation_tokens]

\* An expired and an unexpired activation token are stored at once, and the
\* sweep removes the one and keeps the other.
C22_Witness ==
  /\ \E t \in activation_tokens : t.expires_at < now
  /\ \E t \in activation_tokens : ~(t.expires_at < now)
  /\ delete_expired_activation_tokens(FALSE).activation_tokens
        \notin {{}, activation_tokens}

\* C25 (as stated): when a run of delete_expired_activation_tokens fails while
\* it deletes one expired token, the other expired tokens of the run are still
\* deleted, so at most one expired token is left.
C25_SweepContinuesPastFailure ==
  LET r == delete_expired_activation_tokens(TRUE)
  IN Cardinality({t \in r.activation_tokens : t.expires_at < now}) <= 1

\* C28 (as stated): every activation-token row belongs to an inactive user.
C28_ActivationTokenOnlyForInactive ==
  \A t \in activation_tokens : ~users[t.user_id].is_active

\* C28 (amended): an activation token of an active user comes from
\* resend_activation_token alone: a successful activate_account leaves its user
\* without a token, register_user gives its token to the new, inactive user,
\* and a step that adds a token of an active user is a successful resend.
C28_ActivationTokenOfActiveUserIsResent ==
  /\ [](\A t \in activation_tokens :
          LET r == activate_account(t.token)
          IN r.status = 200 =>
               {x \in r.activation_tokens : x.user_id = t.user_id} = {})
  /\ [](\A e \in RawEmails, p \in Passwords, g \in GroupNames, fail \in BOOLEAN :
          LET r == register_user(EmailPassword(e, p), g, fail)
          IN \A t \in r.activation_tokens \ activation_tokens :
               ~r.users[t.user_id].is_active)
  /\ [][\A t \in activation_tokens' \ activation_tokens :
          users'[t.user_id].is_active =>
             \E e \in RawEmails, p \in Passwords :
               LET r == resend_activation_token(EmailPassword(e, p))
               IN r.status = 200 /\ Apply(r)]_vars

\* An active user holds an activation token, left to expire.
C28_Witness ==
  \E t \in activation_tokens : users[t.user_id].is_active /\ t.expires_at < now

\* C29: a reset_password call that succeeds changes the user's password and
\* the reset-token row and nothing else; right after it refresh_access_token
\* answers every issued refresh token as it did before.
C29_ResetKeepsRefreshTokens ==
  /\ [](\A e \in RawEmails, p \in Passwords, t \in TokenInputs, fail \in BOOLEAN :
          LET data == EmailPassword(e, p)
              u == UserByEmail(data.email)
          IN \A first \in First(ResetOf(u)) :
               LET r == reset_password(data, t, first, fail)
               IN r.status = 200 =>
                    /\ r.refresh_tokens = refresh_tokens
                    /\ r = [Keep(200, r.detail, NoMail) EXCEPT
                              !.users = r.users,
                              !.password_reset_tokens = r.password_reset_tokens])
  /\ [][password_reset_tokens' # password_reset_tokens =>
        \A e \in RawEmails, p \in Passwords, t \in TokenInputs :
          LET data == EmailPassword(e, p)
              u == UserByEmail(data.email)
          IN \A first \in First(ResetOf(u)) :
               LET r == reset_password(data, t, first, FALSE)
               IN (r.status = 200 /\ Apply(r)) =>
                    \A tok \in issued_refresh :
                      (refresh_access_token(tok).status)'
                         = refresh_access_token(tok).status]_vars

\* A reset that will succeed for a user who holds an honoured refresh token.
C29_Witness ==
  \E e \in RawEmails, p \in Passwords, t \in TokenInputs :
    LET data == EmailPassword(e, p)
        u == UserByEmail(data.email)
    IN /\ \E first \in First(ResetOf(u)) :
            reset_password(data, t, first, FALSE).status = 200
       /\ \E tok \in issued_refresh :
            tok.user_id = u /\ refresh_access_token(tok).status = 200

\* C30: no user has two carts and no cart holds a movie twice; create_cart for
\* a movie that is in the caller's cart answers 400 "Movie is already in the
\* cart." and changes nothing.
C30_OneCartPerUserNoDuplicateMovie ==
  /\ \A u \in UserIds : Cardinality(CartsOf(u)) <= 1
  /\ \A c \in DOMAIN carts, m \in Movies : Cardinality(ItemsOf(cart_items, c, m)) <= 1
  /\ \A a \in AccessInputs, m \in MovieInputs, fail \in BOOLEAN :
       \A cart \in FirstCart(a.user_id) :
         (decode_access_token(a) = "ok" /\ ItemsOf(cart_items, cart, m) # {}) =>
            create_cart(a, m, cart, fail) = CartKeep(400, "Movie is already in the cart.")

\* Both users have a cart; one cart holds both movies, and its owner's access
\* token is still good.
C30_Witness ==
  /\ Len(carts) = 2
  /\ \E c \in DOMAIN carts :
       /\ \A m \in Movies : ItemsOf(cart_items, c, m) # {}
       /\ \E a \in issued_access :
            a.user_id = carts[c].user_id /\ decode_access_token(a) = "ok"

\* C23: when the row that activate_account has looked up and found expired is
\* gone by the time of its own delete, activate_account answers 400 "Invalid
\* or expired activation token." and changes neither users nor tokens; it
\* never ends in a server error.
C23_ActivateRacingSweeperRejects ==
  /\ [][(/\ pc["act"] = "expired"
         /\ loaded["act"] \notin activation_tokens
         /\ pc'["act"] = "done") =>
           /\ resp'["act"] = [status |-> 400,
                              detail |-> "Invalid or expired activation token."]
           /\ users' = users
           /\ activation_tokens' = activation_tokens]_vars
  /\ [](resp["act"].status # 500)

\* The sweeper has deleted the expired token that activate_account holds, and
\* the owner is inactive.
C23_Witness ==
  /\ pc["act"] = "expired" /\ pc["sweep"] = "done"
  /\ loaded["act"] \in loaded["sweep"]
  /\ loaded["act"] \notin activation_tokens
  /\ ~users[loaded["act"].user_id].is_active

\* C24: of two overlapping register_user requests for one email at most one
\* user row and one activation token are committed, and a request that did not
\* commit left no row.
C24_ConcurrentRegisterOneWinner ==
  LET email == RegData("reg1").email
      rows == {u \in UserIds : users[u].email = email}
      winners == {q \in {"reg1", "reg2"} : pc[q] = "committed" \/ resp[q].status = 201}
  IN /\ RegData("reg2").email = email
     /\ Cardinality(rows) <= 1
     /\ Cardinality({t \in activation_tokens : t.user_id \in rows}) <= 1
     /\ Cardinality(rows) = Cardinality(winners)

\* Both registrations passed the duplicate check; one was answered 201, the
\* other 500.
C24_Witness ==
  /\ \A q \in {"reg1", "reg2"} : pc[q] = "done"
  /\ {resp[q].status : q \in {"reg1", "reg2"}} = {201, 500}
  /\ Cardinality({u \in UserIds : users[u].email = RegData("reg1").email}) = 1

\* C27 (as stated): of the overlapping refresh_access_token requests that
\* present one refresh token at most one is answered 200.
C27_ConcurrentRefreshOneWinner ==
  Cardinality({q \in {"ref1", "ref2"} : resp[q].status = 200}) <= 1

\* C26: register_user, resend_activation_token, request_password_reset_token
\* and request_change_password have an email exactly when they committed a
\* change, and a request that is rejected or rolled back has none and changes
\* nothing; a step that enqueues an email commits, and sending an email,
\* failing or not, leaves the store as it is.
C26_EmailOnlyAfterCommit ==
  /\ [](\A e \in RawEmails, p \in Passwords, np \in Passwords, a \in AccessInputs,
          g \in GroupNames, fail \in BOOLEAN :
          \A r \in {register_user(EmailPassword(e, p), g, fail),
                    resend_activation_token(EmailPassword(e, p)),
                    request_password_reset_token(PlainEmail(e)),
                    request_change_password(a, p, np, fail)} :
            /\ r.mail # NoMail <=> StoreOf(r) # store
            /\ r.mail # NoMail => r.status \in {200, 201}
            /\ r.status \notin {200, 201} => r = Reject(r.status, r.detail))
  /\ [][outbox' \ outbox # {} => store' # store]_vars
  /\ [][(outbox' \subseteq outbox /\ outbox' # outbox) => store' = store]_vars

\* The notification of a committed password change is waiting to be sent.
C26_Witness ==
  /\ \E m \in outbox : m.kind = "password_change"
  /\ refresh_tokens = {}
  /\ users[1].hashed_password # hash_password("p1")

====
